---- MODULE Spec2Model ----
(***************************************************************************)
(* AISEG2 temperature/humidity bridge: the httpx sensor client             *)
(* (sensor_client.py) and the Home Assistant coordinator and entities that *)
(* read its snapshot (sensor.py).                                          *)
(*                                                                         *)
(* Text is modelled as a sequence of one-character strings.  The module is *)
(* ASCII only, so "C" stands for the temperature-unit marker U+2103 and    *)
(* "%" for the full-width percent sign U+FF05 of the device's labels.      *)
(***************************************************************************)
EXTENDS Naturals, Sequences, FiniteSets, TLC

\* ------------------------------------------------------------ bounds
\* No new call is started once MaxLeaked clients are open that self._client
\* does not hold.
MaxLeaked == 1

\* The device lists given to _extract_sensor_data alone have at most MaxList
\* entries.
MaxList == 2

\* ------------------------------------------------------- text helpers
\* an optional value: <<>> is Python's None, <<v>> a value
None == <<>>
Some(v) == <<v>>

DegC == "C"
Pct == "%"
DigitChars == <<"0", "1", "2", "3", "4", "5", "6", "7", "8", "9">>

IsDigit(c) == \E i \in 1..Len(DigitChars) : DigitChars[i] = c

DigitVal(c) == (CHOOSE i \in 1..Len(DigitChars) : DigitChars[i] = c) - 1

\* label[i], or "" past the end of the text
At(label, i) == IF i \in 1..Len(label) THEN label[i] ELSE ""

\* the index after the longest run of digits starting at i (i itself when
\* label[i] is no digit): what a greedy \d+ consumes
RECURSIVE RunEnd(_, _)
RunEnd(label, i) == IF IsDigit(At(label, i)) THEN RunEnd(label, i + 1) ELSE i

\* int() of a run of digits
RECURSIVE DigitsToInt(_)
DigitsToInt(ds) ==
    IF ds = <<>> THEN 0
    ELSE 10 * DigitsToInt(SubSeq(ds, 1, Len(ds) - 1)) + DigitVal(ds[Len(ds)])

RECURSIVE StripZeros(_)
StripZeros(ds) ==
    IF ds # <<>> /\ ds[Len(ds)] = "0" THEN StripZeros(SubSeq(ds, 1, Len(ds) - 1))
    ELSE ds

\* group(1) of (-?\d+(?:\.\d+)?)C matched at start s, as <<first, last>>
\* indexes, or <<>> when the pattern does not match at s
TempMatchAt(label, s) ==
    LET i == IF At(label, s) = "-" THEN s + 1 ELSE s
        e == RunEnd(label, i)
        f == RunEnd(label, e + 1)
    IN  IF e = i THEN <<>>
        ELSE IF At(label, e) = "." /\ f > e + 1 /\ At(label, f) = DegC
             THEN <<s, f - 1>>
        ELSE IF At(label, e) = DegC THEN <<s, e - 1>>
        ELSE <<>>

\* re.search: the leftmost start at which the pattern matches
TempMatch(label) ==
    LET starts == {s \in 1..Len(label) : TempMatchAt(label, s) # <<>>}
    IN  IF starts = {} THEN <<>>
        ELSE TempMatchAt(label, CHOOSE s \in starts : \A t \in starts : s <= t)

\* float(temp_match.group(1)): sign, whole part and fraction digits
ToFloat(text) ==
    LET neg  == At(text, 1) = "-"
        body == IF neg THEN SubSeq(text, 2, Len(text)) ELSE text
        e    == RunEnd(body, 1)
    IN  [neg   |-> neg,
         whole |-> DigitsToInt(SubSeq(body, 1, e - 1)),
         frac  |-> StripZeros(SubSeq(body, e + 1, Len(body)))]

Temperature(label) ==
    LET m == TempMatch(label)
    IN  IF m = <<>> THEN None ELSE Some(ToFloat(SubSeq(label, m[1], m[2])))

\* group(1) of (\d+)% by re.search
HumMatch(label) ==
    LET starts == {s \in 1..Len(label) :
                     /\ IsDigit(label[s])
                     /\ At(label, RunEnd(label, s)) = Pct}
    IN  IF starts = {} THEN <<>>
        ELSE LET s == CHOOSE s \in starts : \A t \in starts : s <= t
             IN  <<s, RunEnd(label, s) - 1>>

Humidity(label) ==
    LET m == HumMatch(label)
    IN  IF m = <<>> THEN None ELSE Some(DigitsToInt(SubSeq(label, m[1], m[2])))

\* '℃' in label
HasMarker(label) == \E i \in 1..Len(label) : label[i] = DegC

\* ----------------------------------------------------------- JSON values
\* A JSON object is a function from the keys it holds; a value that may be
\* of several JSON types is tagged with its type.
Str(s) == [t |-> "str", s |-> s]
Num(n) == [t |-> "num", n |-> n]
Obj(f) == [t |-> "obj", f |-> f]
JNone == [t |-> "none"]

\* dict.get(k, dflt)
Get(d, k, dflt) == IF k \in DOMAIN d THEN d[k] ELSE dflt

\* str(x) of a JSON scalar
PyStr(x) == IF x.t = "num" THEN ToString(x.n) ELSE x.s

\* ------------------------------------------------------------ extraction
\* A faulty variant of the loop body: an entry is kept only when a
\* temperature is decoded from its label.
ExtractDevice_NeedsTemp(device) ==
    LET st == Get(device, "state", JNone)
    IN  IF st.t = "none" THEN [raised |-> FALSE, recs |-> <<>>]
        ELSE IF st.t = "str"
             THEN [raised |-> st.s # "", recs |-> <<>>]
        ELSE IF DOMAIN st.f = {} THEN [raised |-> FALSE, recs |-> <<>>]
        ELSE LET label == Get(st.f, "label", <<>>)
             IN  IF label = <<>> \/ Temperature(label) = None
                 THEN [raised |-> FALSE, recs |-> <<>>]
                 ELSE [raised |-> FALSE,
                       recs |-> << [device_id   |-> PyStr(Get(device, "nodeId", Str(""))),
                                    name        |-> Get(device, "deviceName", "Unknown"),
                                    location    |-> Get(device, "location", "unset"),
                                    temperature |-> Temperature(label),
                                    humidity    |-> Humidity(label),
                                    status      |-> Get(st.f, "connection", "unknown"),
                                    raw_label   |-> label] >>]

\* One pass of the loop body of _extract_sensor_data over one device entry:
\* the entry is skipped, appended as a record, or the access raises
\* (AttributeError: a state that is a non-empty string has no .get).
ExtractDevice(device) ==
    LET st == Get(device, "state", JNone)
    IN  IF st.t = "none" THEN [raised |-> FALSE, recs |-> <<>>]
        ELSE IF st.t = "str"
             THEN [raised |-> st.s # "", recs |-> <<>>]
        ELSE IF DOMAIN st.f = {} THEN [raised |-> FALSE, recs |-> <<>>]
        ELSE LET label == Get(st.f, "label", <<>>)
             IN  IF label = <<>> \/ ~HasMarker(label)
                 THEN [raised |-> FALSE, recs |-> <<>>]
                 ELSE [raised |-> FALSE,
                       recs |-> << [device_id   |-> PyStr(Get(device, "nodeId", Str(""))),
                                    name        |-> Get(device, "deviceName", "Unknown"),
                                    location    |-> Get(device, "location", "unset"),
                                    temperature |-> Temperature(label),
                                    humidity    |-> Humidity(label),
                                    status      |-> Get(st.f, "connection", "unknown"),
                                    raw_label   |-> label] >>]

\* the for loop over data['regDevList']['list']
RECURSIVE ExtractList(_)
ExtractList(list) ==
    IF list = <<>> THEN [raised |-> FALSE, devices |-> <<>>]
    ELSE LET one  == ExtractDevice(Head(list))
             rest == ExtractList(Tail(list))
         IN  IF one.raised \/ rest.raised
             THEN [raised |-> TRUE, devices |-> <<>>]
             ELSE [raised |-> FALSE, devices |-> one.recs \o rest.devices]

\* A faulty variant of _extract_sensor_data: JSONDecodeError is not caught.
Extract_RaiseBadJson(body) ==
    IF ~body.init THEN [raised |-> FALSE, devices |-> <<>>]
    ELSE IF ~body.valid THEN [raised |-> TRUE, devices |-> <<>>]
    ELSE IF "regDevList" \notin DOMAIN body.data
         THEN [raised |-> FALSE, devices |-> <<>>]
    ELSE LET rdl == body.data["regDevList"]
         IN  IF rdl.t # "obj" THEN [raised |-> TRUE, devices |-> <<>>]
             ELSE IF "list" \notin DOMAIN rdl.f
                  THEN [raised |-> FALSE, devices |-> <<>>]
             ELSE ExtractList(rdl.f["list"])

\* A faulty variant of _extract_sensor_data: a body without the init(...)
\* literal raises instead of giving the empty list.
Extract_RaiseNoInit(body) ==
    IF ~body.init THEN [raised |-> TRUE, devices |-> <<>>]
    ELSE IF ~body.valid THEN [raised |-> FALSE, devices |-> <<>>]
    ELSE IF "regDevList" \notin DOMAIN body.data
         THEN [raised |-> FALSE, devices |-> <<>>]
    ELSE LET rdl == body.data["regDevList"]
         IN  IF rdl.t # "obj" THEN [raised |-> TRUE, devices |-> <<>>]
             ELSE IF "list" \notin DOMAIN rdl.f
                  THEN [raised |-> FALSE, devices |-> <<>>]
             ELSE ExtractList(rdl.f["list"])

\* _extract_sensor_data(html).  A body is [init, valid, data]: whether the
\* init(...) literal is found, whether it parses as JSON, and the parsed
\* object.  The result is the list returned, or raised = TRUE when an
\* exception leaves the function.
Extract(body) ==
    IF ~body.init THEN [raised |-> FALSE, devices |-> <<>>]
    ELSE IF ~body.valid THEN [raised |-> FALSE, devices |-> <<>>]
    ELSE IF "regDevList" \notin DOMAIN body.data
         THEN [raised |-> FALSE, devices |-> <<>>]
    ELSE LET rdl == body.data["regDevList"]
         IN  IF rdl.t # "obj" THEN [raised |-> TRUE, devices |-> <<>>]
             ELSE IF "list" \notin DOMAIN rdl.f
                  THEN [raised |-> FALSE, devices |-> <<>>]
             ELSE ExtractList(rdl.f["list"])

\* ---------------------------------------------------------------- inputs
\* Labels the device can send: "2.6C63%", "-1C", a marker with nothing to
\* decode, and the label of an appliance that is no sensor.
LblFull  == <<"2", ".", "6", "C", "6", "3", "%">>
LblNeg   == <<"-", "1", "C">>
LblBlank == <<"C">>
LblOther == <<"o", "n">>
LblHumOnly == <<"-", "C", "4", "0", "%">>

DevOutdoorOn  == [nodeId |-> Str("1"), deviceName |-> "Outdoor", location |-> "Garden",
                  state |-> Obj([label |-> LblFull, connection |-> "online"])]
DevOutdoorOff == [nodeId |-> Str("1"), deviceName |-> "Outdoor", location |-> "Garden",
                  state |-> Obj([label |-> LblFull, connection |-> "offline"])]
DevIndoor     == [nodeId |-> Num(2), deviceName |-> "Indoor",
                  state |-> Obj([label |-> LblNeg, connection |-> "online"])]
DevNoIdOff    == [deviceName |-> "Attic",
                  state |-> Obj([label |-> LblFull])]
DevNoIdOn     == [deviceName |-> "Cellar",
                  state |-> Obj([label |-> LblNeg, connection |-> "online"])]
DevAircon     == [nodeId |-> Str("3"), deviceName |-> "Aircon",
                  state |-> Obj([label |-> LblOther, connection |-> "online"])]
DevBlank      == [nodeId |-> Str("4"), deviceName |-> "Hall",
                  state |-> Obj([label |-> LblBlank, connection |-> "online"])]
DevBadState   == [nodeId |-> Str("5"), deviceName |-> "Broken", state |-> Str("on")]
DevHumOnly    == [nodeId |-> Str("6"), deviceName |-> "Bath",
                  state |-> Obj([label |-> LblHumOnly, connection |-> "online"])]
DevNoState    == [nodeId |-> Str("7"), deviceName |-> "Plug"]

ListBody(list) ==
    [init |-> TRUE, valid |-> TRUE, data |-> [regDevList |-> Obj([list |-> list])]]

BodyNoInit  == [init |-> FALSE, valid |-> FALSE, data |-> <<>>]
BodyBadJson == [init |-> TRUE, valid |-> FALSE, data |-> <<>>]
BodyNoReg   == [init |-> TRUE, valid |-> TRUE, data |-> [result |-> Num(0)]]
BodyNoList  == [init |-> TRUE, valid |-> TRUE, data |-> [regDevList |-> Obj([page |-> Num(1)])]]
BodyBadType == [init |-> TRUE, valid |-> TRUE, data |-> [regDevList |-> Num(5)]]

\* the response bodies a settings-page GET returns in a poll cycle
CycleBodies ==
    {BodyNoInit, BodyBadJson, BodyNoList, BodyBadType,
     ListBody(<<DevOutdoorOn, DevIndoor>>),
     ListBody(<<DevOutdoorOff, DevAircon>>),
     ListBody(<<DevNoIdOff, DevNoIdOn>>),
     ListBody(<<DevIndoor, DevBadState>>)}

\* the bodies returned to a get_sensor_by_name call
DirectBodies ==
    {BodyBadType, ListBody(<<DevOutdoorOn, DevIndoor>>)}

Bodies(p) == IF p = "coord" THEN CycleBodies ELSE DirectBodies

\* device names get_sensor_by_name is asked for
Names == {"Outdoor"}

\* how an awaited GET can end: a 2xx response, or the exception raised
\* (TransportError: any other httpx error, caught as Exception)
GetOutcomes == {"ok", "Timeout", "ConnectError", "HTTPStatusError", "TransportError"}

\* ----------------------------------------------------------------- state
\* Two callers use the one AISEG2SensorClient: "coord", the coordinator's
\* refresh (_async_update_data, started by the scheduled tick, a manual
\* refresh or the first refresh of async_setup_entry; the host runs one
\* refresh at a time), and "direct", a caller of get_sensor_by_name, which
\* nothing orders against the refresh.
Procs == {"coord", "direct"}

VARIABLES
    client,     \* self._client: 0 is None, else the id of the AsyncClient held
    open,       \* ids of the AsyncClients constructed and not closed
    closer,     \* close(): "idle", or "closing" while aclose() is awaited
    pc,         \* per caller, the await async_get_sensor_data is suspended at
    body,       \* per caller, response.text of this call's settings page
    devices,    \* per caller, the local variable devices
    wanted,     \* device_name given to get_sensor_by_name
    found,      \* what get_sensor_by_name returned
    fetchRes,   \* per caller, how this call's settings-page GET ended
    resetRes,   \* per caller, how this call's home-page GET ended
    result,     \* per caller, how the call ended: "ok", "UpdateFailed", "raised"
    setCli,     \* per caller, the client this call's settings-page GET went through
    homeCli,    \* per caller, the client this call's home-page GET went through
    nSet,       \* per caller, settings-page GETs issued by this call
    nHome,      \* per caller, home-page GETs issued by this call
    data,       \* coordinator.data: None, or Some(snapshot)
    setup,      \* async_setup_entry's first refresh: "pending", "ok", "failed"
    entities    \* device ids the sensor entities were created for

sessVars  == <<client, open, closer>>
callVars  == <<pc, body, devices, wanted, found, fetchRes, resetRes, result,
               setCli, homeCli, nSet, nHome>>
coordVars == <<data, setup, entities>>
vars      == <<sessVars, callVars, coordVars>>

Init ==
    /\ client = 0
    /\ open = {}
    /\ closer = "idle"
    /\ pc = [p \in Procs |-> "idle"]
    /\ body = [p \in Procs |-> None]
    /\ devices = [p \in Procs |-> <<>>]
    /\ wanted = "Outdoor"
    /\ found = None
    /\ fetchRes = [p \in Procs |-> "none"]
    /\ resetRes = [p \in Procs |-> "none"]
    /\ result = [p \in Procs |-> "none"]
    /\ setCli = [p \in Procs |-> 0]
    /\ homeCli = [p \in Procs |-> 0]
    /\ nSet = [p \in Procs |-> 0]
    /\ nHome = [p \in Procs |-> 0]
    /\ data = None
    /\ setup = "pending"
    /\ entities = {}

\* ------------------------------------------------------- session manager
\* A faulty variant of _ensure_client: a client is built on every call.
NeedsClient_Always(c) == TRUE

\* _ensure_client's test: a client is constructed only when none is held
NeedsClient(c) == c = 0

\* A faulty variant of close(): the reference is not dropped.
AfterClose_Keep(c) == c

\* close()'s last statement: self._client = None
AfterClose(c) == 0

\* AsyncClient.get on a client aclose() was called on raises RuntimeError
\* before anything is sent
IsClosed(c) == c \notin open

\* the clients some reference still names
Referenced ==
    {client} \cup {setCli[p] : p \in Procs} \cup {homeCli[p] : p \in Procs}

\* httpx.AsyncClient(...): a new object, equal to none that is open or
\* still referenced (the id of a closed client nothing names is used again)
NewClient ==
    CHOOSE i \in 1..(Cardinality(open \cup Referenced) + 1) :
        /\ i \notin open \cup Referenced
        /\ \A j \in 1..(i - 1) : j \in open \cup Referenced

\* the open clients close() cannot reach
Leaked == open \ {client}

\* ------------------------------------------------------------ coordinator
\* the device ids of the records of a list
IdsOf(devs) == {devs[i].device_id : i \in 1..Len(devs)}

\* A faulty variant of the coordinator's update: records of the previous
\* snapshot whose id the new list lacks are carried over.
NewSnapshot_Merge(old, devs) ==
    IF old = None THEN Some(devs)
    ELSE Some(devs \o SelectSeq(old[1], LAMBDA r : r.device_id \notin IdsOf(devs)))

\* DataUpdateCoordinator keeps what _async_update_data returned as its data
NewSnapshot(old, devs) == Some(devs)

\* async_setup_entry: one temperature entity per record with a temperature,
\* one humidity entity per record with a humidity
EntityIds(devs) ==
    {devs[i].device_id : i \in {j \in 1..Len(devs) :
        devs[j].temperature # None \/ devs[j].humidity # None}}

\* _get_device_data: the first record of the snapshot with this device id
GetDeviceData(snapshot, id) ==
    LET hits == {i \in 1..Len(snapshot) : snapshot[i].device_id = id}
    IN  IF hits = {} THEN None
        ELSE Some(snapshot[CHOOSE i \in hits : \A j \in hits : i <= j])

\* AISEG2BaseTempHumiditySensor.available
Available(snapshot, id) ==
    LET device == GetDeviceData(snapshot, id)
    IN  device # None /\ device[1].status = "online"

\* the loop of get_sensor_by_name
Lookup(sensors, name) ==
    LET hits == {i \in 1..Len(sensors) : sensors[i].name = name}
    IN  IF hits = {} THEN None
        ELSE Some(sensors[CHOOSE i \in hits : \A j \in hits : i <= j])

\* ------------------------------------------------------------- the call
\* A faulty variant without raise_for_status: an error status goes on as a
\* response.
FetchFailed_NoStatusCheck(outcome) == outcome \notin {"ok", "HTTPStatusError"}

\* raise_for_status and the awaited GET: every outcome but a 2xx response
\* raises out of the try block
FetchFailed(outcome) == outcome # "ok"

\* A faulty variant of _async_exit_setting_mode that catches nothing.
ExitRaises_Always(outcome) == outcome # "ok"

\* A faulty variant of _async_exit_setting_mode that catches no timeout.
ExitRaises_Timeout(outcome) == outcome = "Timeout"

\* _async_exit_setting_mode catches TimeoutException and Exception: nothing
\* the home-page GET raises leaves it
ExitRaises(outcome) == FALSE

\* What a finished call leaves behind.  The coordinator's last refresh stays
\* on record (its body, how its GETs ended, how many it sent) until the next
\* refresh starts; the locals of the call are gone.
Keep(f, p, v, idle) == [f EXCEPT ![p] = IF p = "coord" THEN v ELSE idle]

Leave(p, b, fres, rres, ns, nh) ==
    /\ pc' = [pc EXCEPT ![p] = "idle"]
    /\ devices' = [devices EXCEPT ![p] = <<>>]
    /\ setCli' = [setCli EXCEPT ![p] = 0]
    /\ homeCli' = [homeCli EXCEPT ![p] = 0]
    /\ wanted' = IF p = "direct" THEN "Outdoor" ELSE wanted
    /\ body' = Keep(body, p, b, None)
    /\ fetchRes' = Keep(fetchRes, p, fres, "none")
    /\ resetRes' = Keep(resetRes, p, rres, "none")
    /\ nSet' = Keep(nSet, p, ns, 0)
    /\ nHome' = Keep(nHome, p, nh, 0)

\* A faulty variant of the failure path: the mode reset sits in a finally
\* clause, so a call that sent its settings-page GET and failed sends the
\* home-page GET too.
CallRaises_ThenReset(p, b, fres, rres, ns, nh) ==
    /\ Leave(p, b, fres, rres, ns, ns)
    /\ result' = [result EXCEPT ![p] = IF p = "coord" THEN "UpdateFailed" ELSE "raised"]
    /\ setup' = IF p = "coord" /\ setup = "pending" THEN "failed" ELSE setup
    /\ found' = IF p = "direct" THEN None ELSE found
    /\ UNCHANGED <<data, entities>>

\* An exception leaves async_get_sensor_data (logged and re-raised).  The
\* coordinator turns it into UpdateFailed and keeps its data; the first
\* refresh of async_setup_entry then fails and no entity is created.
CallRaises(p, b, fres, rres, ns, nh) ==
    /\ Leave(p, b, fres, rres, ns, nh)
    /\ result' = [result EXCEPT ![p] = IF p = "coord" THEN "UpdateFailed" ELSE "raised"]
    /\ setup' = IF p = "coord" /\ setup = "pending" THEN "failed" ELSE setup
    /\ found' = IF p = "direct" THEN None ELSE found
    /\ UNCHANGED <<data, entities>>

\* async_get_sensor_data returns devs.  The coordinator stores it as its
\* data (and the first refresh creates the entities); get_sensor_by_name
\* searches it.
CallReturns(p, devs, b, fres, rres, ns, nh) ==
    /\ Leave(p, b, fres, rres, ns, nh)
    /\ result' = [result EXCEPT ![p] = "ok"]
    /\ IF p = "coord"
       THEN /\ data' = NewSnapshot(data, devs)
            /\ setup' = IF setup = "pending" THEN "ok" ELSE setup
            /\ entities' = IF setup = "pending" THEN EntityIds(devs) ELSE entities
            /\ found' = found
       ELSE /\ found' = Lookup(devs, wanted)
            /\ UNCHANGED <<data, setup, entities>>

\* _async_exit_setting_mode ends with `outcome` for its GET, after nh
\* home-page GETs of this call
ExitEnds(p, outcome, nh) ==
    IF ExitRaises(outcome)
    THEN CallRaises(p, body[p], fetchRes[p], outcome, nSet[p], nh)
    ELSE CallReturns(p, devices[p], body[p], fetchRes[p], outcome, nSet[p], nh)

\* The call starts: _ensure_client, then the settings-page GET is sent.
\* With no client held the call waits for asyncio.to_thread to build one;
\* a client aclose() was called on refuses the GET.
Start(p) ==
    /\ pc[p] = "idle"
    /\ Cardinality(Leaked) < MaxLeaked
    /\ UNCHANGED sessVars
    /\ IF ~NeedsClient(client) /\ IsClosed(client)
       THEN CallRaises(p, None, "RuntimeError", "none", 0, 0)
       ELSE /\ pc' = [pc EXCEPT ![p] = IF NeedsClient(client) THEN "ensure1" ELSE "fetching"]
            /\ setCli' = [setCli EXCEPT ![p] = IF NeedsClient(client) THEN 0 ELSE client]
            /\ nSet' = [nSet EXCEPT ![p] = IF NeedsClient(client) THEN 0 ELSE 1]
            /\ \E name \in Names : wanted' = IF p = "direct" THEN name ELSE wanted
            /\ body' = [body EXCEPT ![p] = None]
            /\ fetchRes' = [fetchRes EXCEPT ![p] = "none"]
            /\ resetRes' = [resetRes EXCEPT ![p] = "none"]
            /\ nHome' = [nHome EXCEPT ![p] = 0]
            /\ result' = [result EXCEPT ![p] = "none"]
            /\ found' = IF p = "direct" THEN None ELSE found
            /\ UNCHANGED <<devices, homeCli>>
            /\ UNCHANGED coordVars

\* asyncio.to_thread(create_client) completes: the new AsyncClient is
\* assigned to self._client, whatever it holds by now, and the GET the call
\* was about to make is sent through it.
EnsureDone(p) ==
    /\ pc[p] \in {"ensure1", "ensure2"}
    /\ open' = open \cup {NewClient}
    /\ client' = NewClient
    /\ UNCHANGED closer
    /\ IF pc[p] = "ensure1"
       THEN /\ pc' = [pc EXCEPT ![p] = "fetching"]
            /\ setCli' = [setCli EXCEPT ![p] = NewClient]
            /\ nSet' = [nSet EXCEPT ![p] = nSet[p] + 1]
            /\ UNCHANGED <<homeCli, nHome>>
       ELSE /\ pc' = [pc EXCEPT ![p] = "resetting"]
            /\ homeCli' = [homeCli EXCEPT ![p] = NewClient]
            /\ nHome' = [nHome EXCEPT ![p] = nHome[p] + 1]
            /\ UNCHANGED <<setCli, nSet>>
    /\ UNCHANGED <<body, devices, wanted, found, fetchRes, resetRes, result>>
    /\ UNCHANGED coordVars

\* A faulty variant of the settings-page step: after a timeout the GET is
\* sent once more.
FetchReturn_Retry(p) ==
    /\ pc[p] = "fetching"
    /\ UNCHANGED sessVars
    /\ \E outcome \in GetOutcomes :
         IF outcome = "Timeout" /\ nSet[p] < 2
         THEN /\ nSet' = [nSet EXCEPT ![p] = nSet[p] + 1]
              /\ UNCHANGED <<pc, body, devices, wanted, found, fetchRes, resetRes,
                             result, setCli, homeCli, nHome>>
              /\ UNCHANGED coordVars
         ELSE IF FetchFailed(outcome)
         THEN CallRaises(p, None, outcome, "none", nSet[p], 0)
         ELSE \E b \in Bodies(p) :
                IF Extract(b).raised
                THEN CallRaises(p, Some(b), outcome, "none", nSet[p], 0)
                ELSE /\ body' = [body EXCEPT ![p] = Some(b)]
                     /\ fetchRes' = [fetchRes EXCEPT ![p] = outcome]
                     /\ devices' = [devices EXCEPT ![p] = Extract(b).devices]
                     /\ pc' = [pc EXCEPT ![p] = "sleeping"]
                     /\ UNCHANGED <<wanted, found, resetRes, result,
                                    setCli, homeCli, nSet, nHome>>
                     /\ UNCHANGED coordVars

\* The settings-page GET ends.  On a 2xx response the body is extracted at
\* once; a list returned starts the 2 s grace wait.
FetchReturn(p) ==
    /\ pc[p] = "fetching"
    /\ UNCHANGED sessVars
    /\ \E outcome \in GetOutcomes :
         IF FetchFailed(outcome)
         THEN CallRaises(p, None, outcome, "none", nSet[p], 0)
         ELSE \E b \in Bodies(p) :
                IF Extract(b).raised
                THEN CallRaises(p, Some(b), outcome, "none", nSet[p], 0)
                ELSE /\ body' = [body EXCEPT ![p] = Some(b)]
                     /\ fetchRes' = [fetchRes EXCEPT ![p] = outcome]
                     /\ devices' = [devices EXCEPT ![p] = Extract(b).devices]
                     /\ pc' = [pc EXCEPT ![p] = "sleeping"]
                     /\ UNCHANGED <<wanted, found, resetRes, result,
                                    setCli, homeCli, nSet, nHome>>
                     /\ UNCHANGED coordVars

\* asyncio.sleep(2) ends: _async_exit_setting_mode runs _ensure_client and
\* sends the home-page GET through self._client.
SleepDone(p) ==
    /\ pc[p] = "sleeping"
    /\ UNCHANGED sessVars
    /\ IF ~NeedsClient(client) /\ IsClosed(client)
       THEN ExitEnds(p, "RuntimeError", nHome[p])
       ELSE /\ pc' = [pc EXCEPT ![p] = IF NeedsClient(client) THEN "ensure2" ELSE "resetting"]
            /\ homeCli' = [homeCli EXCEPT ![p] = IF NeedsClient(client) THEN 0 ELSE client]
            /\ nHome' = [nHome EXCEPT ![p] = IF NeedsClient(client) THEN 0 ELSE nHome[p] + 1]
            /\ UNCHANGED <<body, devices, wanted, found, fetchRes, resetRes,
                           result, setCli, nSet>>
            /\ UNCHANGED coordVars

\* The home-page GET ends; whatever it raised is logged and dropped, and
\* async_get_sensor_data returns devices.
ResetReturn(p) ==
    /\ pc[p] = "resetting"
    /\ UNCHANGED sessVars
    /\ \E outcome \in GetOutcomes : ExitEnds(p, outcome, nHome[p])

\* close() is called: with no client held it returns at once, else it
\* calls aclose() on the client held and waits for it.
CloseStart ==
    /\ closer = "idle"
    /\ IF client # 0
       THEN /\ open' = open \ {client}
            /\ closer' = "closing"
       ELSE UNCHANGED <<open, closer>>
    /\ UNCHANGED client
    /\ UNCHANGED <<callVars, coordVars>>

\* aclose() returns and close() drops the reference.
CloseDone ==
    /\ closer = "closing"
    /\ client' = AfterClose(client)
    /\ closer' = "idle"
    /\ UNCHANGED open
    /\ UNCHANGED <<callVars, coordVars>>

\* one step of a call of async_get_sensor_data
Call(p) ==
    \/ Start(p)
    \/ EnsureDone(p)
    \/ FetchReturn(p)
    \/ SleepDone(p)
    \/ ResetReturn(p)

\* The integration as the host runs it: one refresh at a time, and close()
\* at any moment.
Next ==
    \/ Call("coord")
    \/ CloseStart
    \/ CloseDone

Spec == Init /\ [][Next]_vars

\* Every await of the refresh ends: the thread that builds the client
\* returns, each GET ends in a response, an error or its timeout, and the
\* grace wait runs out.
Fair ==
    /\ WF_vars(EnsureDone("coord"))
    /\ WF_vars(FetchReturn("coord"))
    /\ WF_vars(SleepDone("coord"))
    /\ WF_vars(ResetReturn("coord"))

SpecLive == Spec /\ Fair

\* The same with a caller of get_sensor_by_name, which runs beside the
\* refresh.
NextOverlap ==
    \/ \E p \in Procs : Call(p)
    \/ CloseStart
    \/ CloseDone

SpecOverlap == Init /\ [][NextOverlap]_vars

\* Calls that do not overlap, and no close(): a call starts only when no
\* other is in flight.
NextSeq ==
    \E p \in Procs :
        \/ Start(p) /\ \A q \in Procs : pc[q] = "idle"
        \/ EnsureDone(p)
        \/ FetchReturn(p)
        \/ SleepDone(p)
        \/ ResetReturn(p)

SpecSeq == Init /\ [][NextSeq]_vars

\* ------------------------------------------------- the extractor alone
\* the device entries a list is made of, and the lists of at most MaxList
ExtractEntries ==
    {DevOutdoorOn, DevOutdoorOff, DevIndoor, DevNoIdOn, DevAircon, DevBlank,
     DevBadState, DevHumOnly, DevNoState}

ExtractLists == UNION {[1..n -> ExtractEntries] : n \in 0..MaxList}

\* the bodies _extract_sensor_data is given (the empty string is a body in
\* which the init(...) literal is not found)
ExtractInputs ==
    {BodyNoInit, BodyBadJson, BodyNoReg, BodyNoList, BodyBadType}
      \cup {ListBody(l) : l \in ExtractLists}

\* response.text is at hand and _extract_sensor_data is about to be called
InitExtract ==
    /\ \E b \in ExtractInputs : body = [p \in Procs |-> IF p = "coord" THEN Some(b) ELSE None]
    /\ pc = [p \in Procs |-> IF p = "coord" THEN "extracting" ELSE "idle"]
    /\ client = 0
    /\ open = {}
    /\ closer = "idle"
    /\ devices = [p \in Procs |-> <<>>]
    /\ wanted = "Outdoor"
    /\ found = None
    /\ fetchRes = [p \in Procs |-> IF p = "coord" THEN "ok" ELSE "none"]
    /\ resetRes = [p \in Procs |-> "none"]
    /\ result = [p \in Procs |-> "none"]
    /\ setCli = [p \in Procs |-> 0]
    /\ homeCli = [p \in Procs |-> 0]
    /\ nSet = [p \in Procs |-> 0]
    /\ nHome = [p \in Procs |-> 0]
    /\ data = None
    /\ setup = "pending"
    /\ entities = {}

\* devices = self._extract_sensor_data(html): the list returned, or the
\* exception that leaves the function
ExtractBody(p) ==
    /\ pc[p] = "extracting"
    /\ pc' = [pc EXCEPT ![p] = "extracted"]
    /\ devices' = [devices EXCEPT ![p] = Extract(body[p][1]).devices]
    /\ result' = [result EXCEPT ![p] = IF Extract(body[p][1]).raised THEN "raised" ELSE "ok"]
    /\ UNCHANGED <<body, wanted, found, fetchRes, resetRes, setCli, homeCli, nSet, nHome>>
    /\ UNCHANGED <<sessVars, coordVars>>

NextExtract == ExtractBody("coord")

SpecExtract == InitExtract /\ [][NextExtract]_vars

\* ------------------------------------------------------------- properties
\* the device ids the device lists above can give a record
DeviceIds == {"", "1", "2", "3", "4", "5"}

\* how a GET can fail
Failures == {"Timeout", "ConnectError", "HTTPStatusError"}

\* the list a refresh extracted from the body it is on record with
Extracted == Extract(body["coord"][1]).devices

\* the refresh ends in this step
RefreshEnds == pc["coord"] # "idle" /\ pc'["coord"] = "idle"

\* C1: when the settings-page GET of a refresh ends in a timeout, a
\* connection failure or an error status, no body is extracted, the
\* coordinator's data stays what it was and the refresh is reported as
\* UpdateFailed.
C1_FetchFailureKeepsSnapshot ==
    [][(pc["coord"] = "fetching" /\ fetchRes'["coord"] \in Failures)
         => /\ pc'["coord"] = "idle"
            /\ body'["coord"] = None
            /\ data' = data
            /\ result'["coord"] = "UpdateFailed"]_vars

\* a refresh failed on an error status while a snapshot with records is held
C1_Witness ==
    /\ pc["coord"] = "idle"
    /\ fetchRes["coord"] = "HTTPStatusError"
    /\ result["coord"] = "UpdateFailed"
    /\ data # None
    /\ data[1] # <<>>

\* C2: a refresh that succeeds leaves as data exactly the list extracted
\* from its body; a device id of the previous snapshot that the new list
\* lacks is in no record of the data and reads unavailable.
C2_SnapshotReplaced ==
    [][(RefreshEnds /\ result'["coord"] = "ok")
         => /\ data' = Some(Extract(body'["coord"][1]).devices)
            /\ \A id \in DeviceIds :
                 (/\ data # None
                  /\ id \in IdsOf(data[1])
                  /\ id \notin IdsOf(Extract(body'["coord"][1]).devices))
                 => /\ id \notin IdsOf(data'[1])
                    /\ ~Available(data'[1], id)]_vars

\* device "2" got its entities from the first refresh; a later refresh
\* returned records without it
C2_Witness ==
    /\ pc["coord"] = "idle"
    /\ result["coord"] = "ok"
    /\ "2" \in entities
    /\ data # None
    /\ data[1] # <<>>
    /\ "2" \notin IdsOf(data[1])
    /\ ~Available(data[1], "2")

\* C3: a refresh whose home-page GET failed, in whatever way, ended as a
\* success and its data is the list extracted from its body.
C3_ResetFailureAbsorbed ==
    resetRes["coord"] \notin {"none", "ok"}
      => /\ pc["coord"] = "idle"
         /\ result["coord"] = "ok"
         /\ data = Some(Extracted)

\* the home-page GET timed out after records were extracted
C3_Witness ==
    /\ resetRes["coord"] = "Timeout"
    /\ result["coord"] = "ok"
    /\ data # None
    /\ data[1] # <<>>

\* the calls past their settings-page GET and its extraction
PastExtraction == {"sleeping", "ensure2", "resetting"}

\* C4: a cycle whose extraction completed issues exactly one home-page GET,
\* after the extraction and the grace wait, through the client its
\* settings-page GET went through.
C4_OneHomeGetSameClient ==
    \A p \in Procs :
        /\ pc[p] \in {"ensure1", "fetching", "sleeping"} => nHome[p] = 0
        /\ pc[p] = "resetting" => nHome[p] = 1 /\ homeCli[p] = setCli[p]
        /\ (pc[p] = "idle" /\ resetRes[p] # "none") => nHome[p] = 1

\* a payload with nothing to extract: no init(...) literal, no valid JSON,
\* or no regDevList.list in the object
Unusable(b) ==
    \/ ~b.init
    \/ ~b.valid
    \/ "regDevList" \notin DOMAIN b.data
    \/ /\ b.data["regDevList"].t = "obj"
       /\ "list" \notin DOMAIN b.data["regDevList"].f

\* C5: a refresh that got a 2xx response with an unusable payload ends as a
\* success with the empty list as data; a refresh fails after a 2xx response
\* only when the extraction raised.
C5_UnusablePayloadIsSuccess ==
    /\ (pc["coord"] = "idle" /\ body["coord"] # None /\ Unusable(body["coord"][1]))
         => /\ result["coord"] = "ok"
            /\ data = Some(<<>>)
    /\ (result["coord"] = "UpdateFailed" /\ fetchRes["coord"] = "ok")
         => /\ body["coord"] # None
            /\ Extract(body["coord"][1]).raised

\* entities exist, so an earlier snapshot held records; the last refresh got
\* malformed JSON and left the empty list
C5_Witness ==
    /\ pc["coord"] = "idle"
    /\ body["coord"] = Some(BodyBadJson)
    /\ result["coord"] = "ok"
    /\ data = Some(<<>>)
    /\ entities # {}

\* C6: once close() has closed the client a running cycle used, the cycle
\* constructs no client and sends its home-page GET through no open client.
C6_SessionStaysClosed ==
    \A p \in Procs :
        (pc[p] \in PastExtraction /\ setCli[p] \notin open)
          => /\ pc[p] # "ensure2"
             /\ pc[p] = "resetting" => homeCli[p] \notin open

\* the calls with a GET outstanding
Outstanding == {p \in Procs : pc[p] \in {"fetching", "resetting"}}

\* C7: at most one cycle is in flight and at most one GET is outstanding,
\* whichever caller started the cycles.
C7_StrictlySequential ==
    /\ Cardinality({p \in Procs : pc[p] # "idle"}) <= 1
    /\ Cardinality(Outstanding) <= 1

\* C8: with calls that do not overlap and no close(), no client exists
\* before the first call needs one, one client is constructed in all, and
\* every GET goes through it.
C8_LazyReusedClient ==
    /\ open # {} => \E p \in Procs : nSet[p] > 0 \/ result[p] # "none"
    /\ open \subseteq {1}
    /\ client = IF open = {} THEN 0 ELSE 1
    /\ \A p \in Procs :
         /\ pc[p] \in {"fetching", "sleeping", "resetting"}
              => setCli[p] = client /\ client \in open
         /\ pc[p] = "resetting" => homeCli[p] = client
         /\ pc[p] # "ensure2"

\* both callers have used the one client: the refresh has returned and the
\* home-page GET of a get_sensor_by_name call is out
C8_Witness ==
    /\ result["coord"] = "ok"
    /\ nHome["coord"] = 1
    /\ pc["direct"] = "resetting"
    /\ homeCli["direct"] = client
    /\ setCli["direct"] = client
    /\ open = {client}

\* C9: close() calls aclose() only on a client that is held, and that
\* client is closed; when close() returns no client is held; whenever no
\* close() is running the client held, if any, is open; a call started then
\* waits for a new client when none is held and else sends its GET through
\* the open one; a client _ensure_client assigns is new and open.
C9_CloseSafe ==
    [][/\ (closer = "idle" /\ closer' = "closing")
            => client # 0 /\ client' = client /\ client \notin open'
       /\ (closer = "closing" /\ closer' = "idle") => client' = 0
       /\ closer' = "idle" => (client' = 0 \/ client' \in open')
       /\ \A p \in Procs :
            /\ (pc[p] = "idle" /\ pc'[p] # "idle" /\ closer = "idle")
                 => IF client = 0 THEN pc'[p] = "ensure1"
                    ELSE pc'[p] = "fetching" /\ setCli'[p] \in open'
            /\ (pc[p] \in {"ensure1", "ensure2"} /\ pc'[p] \notin {"ensure1", "ensure2"})
                 => client' \in open' \ open]_vars

\* close() closed the client the refresh fetched through and returned; the
\* mode reset got a new client, which is open and held
C9_Witness ==
    /\ closer = "idle"
    /\ pc["coord"] = "resetting"
    /\ setCli["coord"] \notin open
    /\ homeCli["coord"] = client
    /\ client \in open

\* C10: a device id reads available exactly when the data holds a record
\* with that id whose status is "online".
C10_AvailableIffOnlineRecord ==
    data # None =>
        \A id \in DeviceIds :
            Available(data[1], id)
              <=> \E i \in 1..Len(data[1]) :
                     data[1][i].device_id = id /\ data[1][i].status = "online"

\* the records extracted from the body at hand
Records == devices["coord"]

\* C11: every record extracted has a decoded temperature or a decoded
\* humidity.
C11_NoRecordWithoutValue ==
    (pc["coord"] = "extracted" /\ result["coord"] = "ok")
      => \A i \in 1..Len(Records) :
            Records[i].temperature # None \/ Records[i].humidity # None

\* C12: the device ids of the records of the coordinator's data are pairwise
\* distinct.
C12_DeviceIdsUnique ==
    data # None =>
        \A i, j \in 1..Len(data[1]) :
            i # j => data[1][i].device_id # data[1][j].device_id

\* a body whose init(...) object holds regDevList.list
IsListBody(b) ==
    /\ b.init
    /\ b.valid
    /\ "regDevList" \in DOMAIN b.data
    /\ b.data["regDevList"].t = "obj"
    /\ "list" \in DOMAIN b.data["regDevList"].f

\* a device entry whose state, if it has one, is an object
WellFormed(d) == "state" \in DOMAIN d => d["state"].t = "obj"

\* a device entry whose state.label holds the temperature-unit marker
MarkerEntry(d) ==
    /\ "state" \in DOMAIN d
    /\ d["state"].t = "obj"
    /\ "label" \in DOMAIN d["state"].f
    /\ HasMarker(d["state"].f["label"])

C14_EmptyOnUnparsable ==
    (/\ pc["coord"] = "extracted"
     /\ ~body["coord"][1].init \/ ~body["coord"][1].valid)
      => /\ result["coord"] = "ok"
         /\ Records = <<>>

\* the extractor was run on a body with malformed JSON
C14_Witness ==
    /\ pc["coord"] = "extracted"
    /\ body["coord"] = Some(BodyBadJson)
    /\ result["coord"] = "ok"
    /\ fetchRes["coord"] = "ok"

\* C15: once a refresh has extracted its list, during the grace wait and
\* when the home-page GET is sent, the coordinator's data is that list.
C15_SnapshotVisibleBeforeReset ==
    pc["coord"] \in PastExtraction => data = Some(devices["coord"])

\* One step of the refresh along the paths Idle -> Fetching -> Extracting ->
\* ResettingMode -> Idle, Idle -> Fetching -> Failed -> Idle and
\* Idle -> Fetching -> Extracting -> Failed -> Idle.  Fetching is "ensure1"
\* and "fetching"; extraction runs within the step that ends the GET;
\* ResettingMode is the grace wait, "ensure2" and "resetting".
PathStep ==
    /\ pc["coord"] = "idle" => pc'["coord"] \in {"idle", "ensure1", "fetching"}
    /\ pc["coord"] = "ensure1" => pc'["coord"] \in {"ensure1", "fetching"}
    /\ pc["coord"] = "fetching" =>
         \/ pc'["coord"] = "fetching"
         \/ /\ pc'["coord"] = "sleeping"
            /\ fetchRes'["coord"] = "ok"
            /\ ~Extract(body'["coord"][1]).raised
         \/ /\ pc'["coord"] = "idle"
            /\ result'["coord"] = "UpdateFailed"
            /\ \/ fetchRes'["coord"] # "ok" /\ body'["coord"] = None
               \/ fetchRes'["coord"] = "ok" /\ Extract(body'["coord"][1]).raised
    /\ pc["coord"] = "sleeping" =>
         \/ pc'["coord"] \in PastExtraction
         \/ pc'["coord"] = "idle" /\ result'["coord"] = "ok"
    /\ pc["coord"] = "ensure2" => pc'["coord"] \in {"ensure2", "resetting"}
    /\ pc["coord"] = "resetting" =>
         \/ pc'["coord"] = "resetting"
         \/ pc'["coord"] = "idle" /\ result'["coord"] = "ok"

\* C16: every step of a refresh is along one of the three paths, and every
\* refresh in flight returns to idle.
C16_PathsAndReturn ==
    /\ [][PathStep]_vars
    /\ (pc["coord"] # "idle") ~> (pc["coord"] = "idle")

\* a refresh went Fetching -> Extracting -> Failed -> Idle: the GET returned
\* 2xx and the extraction raised
C16_Witness ==
    /\ pc["coord"] = "idle"
    /\ result["coord"] = "UpdateFailed"
    /\ fetchRes["coord"] = "ok"
    /\ body["coord"] # None
    /\ nHome["coord"] = 0

\* C17: a cycle sends at most one settings-page GET and at most one
\* home-page GET, and a settings-page GET that failed ends the cycle with
\* no further GET.
C17_NoRetry ==
    [][\A p \in Procs :
         /\ nSet'[p] <= 1
         /\ nHome'[p] <= 1
         /\ (pc[p] = "fetching" /\ fetchRes'[p] \notin {"none", "ok"})
              => /\ pc'[p] = "idle"
                 /\ nSet'[p] <= nSet[p]
                 /\ nHome'[p] = 0]_vars

\* a refresh timed out on its one settings-page GET and ended
C17_Witness ==
    /\ pc["coord"] = "idle"
    /\ fetchRes["coord"] = "Timeout"
    /\ nSet["coord"] = 1
    /\ result["coord"] = "UpdateFailed"

\* C18: with calls that overlap in _ensure_client at most one client is
\* open and none is open that self._client does not hold.
C18_OneClientOnOverlap ==
    /\ Cardinality(open) <= 1
    /\ Leaked = {}

\* C19: a cycle sends a home-page GET only after its settings-page GET
\* returned 2xx and the extraction returned; a cycle that failed has sent
\* none.
C19_ResetOnlyAfterExtraction ==
    \A p \in Procs :
        /\ nHome[p] > 0
             => /\ fetchRes[p] = "ok"
                /\ body[p] # None
                /\ ~Extract(body[p][1]).raised
        /\ (pc[p] = "idle" /\ result[p] \in {"UpdateFailed", "raised"})
             => nHome[p] = 0

\* a refresh sent its settings-page GET, could not connect and ended without
\* a home-page GET
C19_Witness ==
    /\ pc["coord"] = "idle"
    /\ fetchRes["coord"] = "ConnectError"
    /\ result["coord"] = "UpdateFailed"
    /\ nSet["coord"] = 1
    /\ nHome["coord"] = 0

====
